---- MODULE Spec2Model ----
(***************************************************************************)
(* A model of the video-surveillance pipeline:                             *)
(*   - get_rekognition_results   (rekognition_analysis.py), the job poller *)
(*   - store_results_dynamodb    (rekognition_analysis.py), filter + store *)
(*   - analyze_frames_with_rekognition (lambda_processing.py), dispatcher  *)
(* Each component has its own specification (SpecPoller, SpecStore,        *)
(* SpecDispatch); the variables of the other components stay at their      *)
(* initial value.                                                          *)
(***************************************************************************)
EXTENDS Integers, Sequences, FiniteSets, TLC

VARIABLES
    \* ---- get_rekognition_results ----
    max_attempts,   \* the max_attempts argument of the call
    attempt,        \* the local counter `attempt`
    response,       \* the local `response` (last value get_label_detection returned)
    ppc,            \* position in get_rekognition_results
    poutcome,       \* how the call ended: "none", "return" or the exception raised
    returned,       \* the value returned to the caller (NoResponse if none)
    history,        \* what each get_label_detection call gave, in call order
    sleeps,         \* number of time.sleep(poll_interval) calls made
    \* ---- store_results_dynamodb ----
    table,          \* the items of the DynamoDB table VideoAnalysis
    calls,          \* number of store_results_dynamodb calls made; it stands for the
                    \* clock too: the n-th call reads int(time.time()) = n - 1
    puts,           \* per job id, the number of put_item writes made for it
    thresholdOf,    \* per job id, the confidence_threshold of the call that wrote its item
    last,           \* the arguments and the outcome of the latest call
    \* ---- analyze_frames_with_rekognition ----
    nframes,        \* len(frames)
    width,          \* max_workers of the ThreadPoolExecutor
    dpc,            \* position of the calling thread in analyze_frames_with_rekognition
    submitted,      \* number of process_frame tasks executor.map has submitted
    work_queue,     \* the executor's queue of submitted, not yet started, frame indexes
    fstate,         \* per frame index, where its process_frame call is
    fresult,        \* per frame index, how its process_frame call ended
    started,        \* per frame index, how many times process_frame was begun for it
    fcalls,         \* per frame index, the collaborator calls process_frame made for it
    sink,           \* the frame outcomes the caller of analyze_frames_with_rekognition
                    \* can read: what the function returns or hands over
    \* ---- extract_frames ----
    interval,       \* the interval argument, in tenths of a second
    stream_fps,     \* the frame rate the container reports, in hundredths of a frame/s
    stream_openable,\* whether OpenCV can open the container when it holds the video
    stream_len,     \* the number of frames the container holds
    payload,        \* video_data: "fresh" (unread), "exhausted" (read to its end) or "none"
    readers,        \* the functions that read video_data, in the order of their reads
    epc,            \* position in extract_frames
    frame_rate,     \* the local frame_rate (hundredths)
    frame_count,    \* the local frame_count
    frames,         \* the local list frames: the decode numbers of the frames kept
    eoutcome,       \* how extract_frames ended: "none", "return" or the exception raised
    \* ---- preprocess_frames ----
    in_frames,      \* the frames argument: for each frame, what OpenCV does with it
    rpc,            \* position in preprocess_frames
    ridx,           \* the position of the for loop in the frames argument (from 1)
    processed_frames, \* the local list processed_frames: the positions of the frames encoded
    routcome,       \* how preprocess_frames ended: "none", "return" or the exception raised
    \* ---- lambda_handler ----
    has_arn,        \* whether the event holds a streamARN
    hpc,            \* position in lambda_handler
    houtcome,       \* what the caller of lambda_handler gets: "none" while it runs
    hlogged,        \* the exception lambda_handler caught and logged, "none" if none
    ccalls          \* the calls lambda_handler made to AWS for the stream, in order

pollerVars == <<max_attempts, attempt, response, ppc, poutcome, returned, history, sleeps>>

storeVars == <<table, calls, puts, thresholdOf, last>>

dispVars == <<nframes, width, dpc, submitted, work_queue, fstate, fresult, started,
             fcalls, sink>>

extractVars == <<interval, stream_fps, stream_openable, stream_len, payload, readers, epc,
                frame_rate, frame_count, frames, eoutcome>>

preVars == <<in_frames, rpc, ridx, processed_frames, routcome>>

handlerVars == <<has_arn, hpc, houtcome, hlogged, ccalls>>

vars == <<pollerVars, storeVars, dispVars, extractVars, preVars, handlerVars>>

\* What a step of one component leaves alone: the other components' variables.
notPollerVars == <<storeVars, dispVars, extractVars, preVars, handlerVars>>
notStoreVars == <<pollerVars, dispVars, extractVars, preVars, handlerVars>>
notDispVars == <<pollerVars, storeVars, extractVars, preVars, handlerVars>>
notExtractVars == <<pollerVars, storeVars, dispVars, preVars, handlerVars>>
notPreVars == <<pollerVars, storeVars, dispVars, extractVars, handlerVars>>

----------------------------------------------------------------------------
(* Bounds *)
MaxAttempts == 3
MaxLabels == 2      \* longest results['Labels'] list given to a store call
MaxCalls == 2       \* number of store_results_dynamodb calls in a run
MaxFrames == 3      \* longest list of frames given to the dispatcher
MaxWidth == 2       \* pool widths 1..MaxWidth are tried beside the code's own
MaxDecoded == 31    \* most frames a stream given to extract_frames holds
MaxBatch == 3       \* longest frames list given to preprocess_frames
MaxStreamFrames == 2 \* most frames a stream given to lambda_handler holds

----------------------------------------------------------------------------
(* get_rekognition_results *)

\* JobStatus values of a get_label_detection response. The code treats every
\* status other than SUCCEEDED and FAILED alike.
Statuses == {"IN_PROGRESS", "UNKNOWN", "SUCCEEDED", "FAILED"}
TerminalStatuses == {"SUCCEEDED", "FAILED"}

\* The payload a response carries (its Labels), told apart by a tag.
Payloads == {"p1", "p2"}

\* A response of get_label_detection.
Responses == [JobStatus : Statuses, Labels : Payloads]

\* The exceptions the handlers of get_rekognition_results name.
QueryErrors == {"ClientError", "BotoCoreError"}

NoResponse == [JobStatus |-> "none", Labels |-> "none"]

\* An entry of history: a response, or the error the query raised.
Raised(e) == [JobStatus |-> e, Labels |-> "none"]

\* Faulty variant: the loop test off by one.
WhileCondition_OffByOne == attempt <= max_attempts

\* while attempt < max_attempts
WhileCondition == attempt < max_attempts

\* Faulty variant: the success test compares with a status the service never sends.
IsSucceeded_WrongName(status) == status = "COMPLETED"

\* Faulty variant: the success test never matches, so a SUCCEEDED job is slept on.
IsSucceeded_Never(status) == FALSE

\* if status == 'SUCCEEDED'
IsSucceeded(status) == status = "SUCCEEDED"

\* Faulty variant: the failure test never matches, so a FAILED job is polled on.
IsFailed_Never(status) == FALSE

\* elif status == 'FAILED'
IsFailed(status) == status = "FAILED"

\* Faulty variant: the FAILED branch raises the same exception as the timeout.
FailedException_AsTimeout == "TimeoutError"

\* raise Exception(...) of the FAILED branch
FailedException == "Exception"

\* raise TimeoutError(...) after the loop
TimeoutException == "TimeoutError"

\* Faulty variant: the counter is advanced twice per sleep.
NextAttempt_Double(a) == a + 2

\* attempt += 1
NextAttempt(a) == a + 1

PollerInit ==
    /\ max_attempts \in -1..MaxAttempts
    /\ attempt = 0
    /\ response = NoResponse
    /\ ppc = "start"
    /\ poutcome = "none"
    /\ returned = NoResponse
    /\ history = <<>>
    /\ sleeps = 0

\* Entering the function: attempt = 0.
PollerEnter ==
    /\ ppc = "start"
    /\ attempt' = 0
    /\ ppc' = "while"
    /\ UNCHANGED <<max_attempts, response, poutcome, returned, history, sleeps>>
    /\ UNCHANGED notPollerVars

\* The loop test fails: log and raise TimeoutError.
PollerTimeout ==
    /\ ppc = "while"
    /\ ~WhileCondition
    /\ poutcome' = TimeoutException
    /\ ppc' = "done"
    /\ UNCHANGED <<max_attempts, attempt, response, returned, history, sleeps>>
    /\ UNCHANGED notPollerVars

\* The loop test holds and get_label_detection returns a response.
PollerQuery ==
    /\ ppc = "while"
    /\ WhileCondition
    /\ \E r \in Responses :
          /\ response' = r
          /\ history' = Append(history, r)
    /\ ppc' = "check"
    /\ UNCHANGED <<max_attempts, attempt, poutcome, returned, sleeps>>
    /\ UNCHANGED notPollerVars

\* The loop test holds and get_label_detection raises: the handler logs and
\* re-raises.
PollerQueryRaises ==
    /\ ppc = "while"
    /\ WhileCondition
    /\ \E e \in QueryErrors :
          /\ history' = Append(history, Raised(e))
          /\ poutcome' = e
    /\ ppc' = "done"
    /\ UNCHANGED <<max_attempts, attempt, response, returned, sleeps>>
    /\ UNCHANGED notPollerVars

\* status == 'SUCCEEDED': return response.
PollerSucceeded ==
    /\ ppc = "check"
    /\ IsSucceeded(response.JobStatus)
    /\ returned' = response
    /\ poutcome' = "return"
    /\ ppc' = "done"
    /\ UNCHANGED <<max_attempts, attempt, response, history, sleeps>>
    /\ UNCHANGED notPollerVars

\* status == 'FAILED': raise Exception (no handler of the function catches it).
PollerFailed ==
    /\ ppc = "check"
    /\ ~IsSucceeded(response.JobStatus)
    /\ IsFailed(response.JobStatus)
    /\ poutcome' = FailedException
    /\ ppc' = "done"
    /\ UNCHANGED <<max_attempts, attempt, response, returned, history, sleeps>>
    /\ UNCHANGED notPollerVars

\* Any other status: time.sleep(poll_interval); attempt += 1.
PollerSleep ==
    /\ ppc = "check"
    /\ ~IsSucceeded(response.JobStatus)
    /\ ~IsFailed(response.JobStatus)
    /\ sleeps' = sleeps + 1
    /\ attempt' = NextAttempt(attempt)
    /\ ppc' = "while"
    /\ UNCHANGED <<max_attempts, response, poutcome, returned, history>>
    /\ UNCHANGED notPollerVars

PollerNext ==
    \/ PollerEnter
    \/ PollerTimeout
    \/ PollerQuery
    \/ PollerQueryRaises
    \/ PollerSucceeded
    \/ PollerFailed
    \/ PollerSleep

\* The DetectionJob state the poller is in, read off its position and outcome.
\* A call that ended by re-raising a query error reached no terminal state.
JobState ==
    CASE ppc = "start" -> "SUBMITTED"
      [] ppc \in {"while", "check"} -> "POLLING"
      [] ppc = "done" /\ poutcome = "return" -> "SUCCEEDED"
      [] ppc = "done" /\ poutcome = FailedException -> "FAILED"
      [] ppc = "done" /\ poutcome = TimeoutException -> "TIMED_OUT"
      [] OTHER -> "POLLING"

----------------------------------------------------------------------------
(* store_results_dynamodb *)

JobIds == {"j1", "j2"}

\* confidence_threshold=80, the default of the parameter (percent).
confidence_threshold_default == 80

Thresholds == {confidence_threshold_default, 90}

\* Labels as Rekognition reports them; Confidence is held in tenths of a
\* percent (799 is 79.9, 800 is 80.0), so that 79.9 and 80 can be compared.
LabelUniverse ==
    { [Name |-> "Person", Confidence |-> 900],
      [Name |-> "Car", Confidence |-> 800],
      [Name |-> "Dog", Confidence |-> 799] }

\* The lists results['Labels'] may be.
LabelLists == UNION { [1..n -> LabelUniverse] : n \in 0..MaxLabels }

\* Faulty variant: the comparison is strict.
MeetsThreshold_Strict(label, confidence_threshold) ==
    label.Confidence > confidence_threshold * 10

\* label['Confidence'] >= confidence_threshold
MeetsThreshold(label, confidence_threshold) ==
    label.Confidence >= confidence_threshold * 10

\* Faulty variant: the unfiltered list is stored.
filtered_labels_Unfiltered(labels, confidence_threshold) == labels

\* [label for label in results['Labels'] if label['Confidence'] >= confidence_threshold]
filtered_labels(labels, confidence_threshold) ==
    LET Keep(label) == MeetsThreshold(label, confidence_threshold)
    IN  SelectSeq(labels, Keep)

\* Faulty variant: the list is stored when it is empty, too.
IsEmptyList_Never(labels) == FALSE

\* if not filtered_labels
IsEmptyList(labels) == labels = <<>>

\* The item the call prepares. camera_id and location are passed through.
Item(job_id, labels, timestamp) ==
    [job_id |-> job_id, camera_id |-> "cam", location |-> "loc",
     results |-> labels, timestamp |-> timestamp]

\* Two items have the same primary key (the result store is keyed by id).
SameKey(a, b) == a.job_id = b.job_id

\* table.put_item(Item=item): the item replaces the one with its key, if any.
put_item(item) == {it \in table : ~SameKey(it, item)} \cup {item}

NoCall == [job_id |-> "none", Labels |-> <<>>, confidence_threshold |-> 0, outcome |-> "none"]

StoreInit ==
    /\ table = {}
    /\ calls = 0
    /\ puts = [j \in JobIds |-> 0]
    /\ thresholdOf = [j \in JobIds |-> 0]
    /\ last = NoCall

CallRecord(job_id, labels, confidence_threshold, outcome) ==
    [job_id |-> job_id, Labels |-> labels,
     confidence_threshold |-> confidence_threshold, outcome |-> outcome]

\* A call whose filtered list is empty: logs and returns, nothing written.
StoreSkipped(job_id, labels, confidence_threshold) ==
    /\ calls < MaxCalls
    /\ IsEmptyList(filtered_labels(labels, confidence_threshold))
    /\ calls' = calls + 1
    /\ last' = CallRecord(job_id, labels, confidence_threshold, "skipped")
    /\ UNCHANGED <<table, puts, thresholdOf>>
    /\ UNCHANGED notStoreVars

\* A call with a non-empty filtered list whose put_item succeeds.
StoreWritten(job_id, labels, confidence_threshold) ==
    /\ calls < MaxCalls
    /\ ~IsEmptyList(filtered_labels(labels, confidence_threshold))
    /\ table' = put_item(Item(job_id, filtered_labels(labels, confidence_threshold), calls))
    /\ puts' = [puts EXCEPT ![job_id] = @ + 1]
    /\ thresholdOf' = [thresholdOf EXCEPT ![job_id] = confidence_threshold]
    /\ calls' = calls + 1
    /\ last' = CallRecord(job_id, labels, confidence_threshold, "stored")
    /\ UNCHANGED notStoreVars

\* A call with a non-empty filtered list whose put_item raises ClientError or
\* BotoCoreError: logged and re-raised, nothing written.
StoreRaises(job_id, labels, confidence_threshold) ==
    /\ calls < MaxCalls
    /\ ~IsEmptyList(filtered_labels(labels, confidence_threshold))
    /\ \E e \in QueryErrors :
          last' = CallRecord(job_id, labels, confidence_threshold, e)
    /\ calls' = calls + 1
    /\ UNCHANGED <<table, puts, thresholdOf>>
    /\ UNCHANGED notStoreVars

\* One call of store_results_dynamodb, with any arguments.
StoreSkippedCall ==
    \E j \in JobIds, ls \in LabelLists, t \in Thresholds : StoreSkipped(j, ls, t)

StoreWrittenCall ==
    \E j \in JobIds, ls \in LabelLists, t \in Thresholds : StoreWritten(j, ls, t)

StoreRaisesCall ==
    \E j \in JobIds, ls \in LabelLists, t \in Thresholds : StoreRaises(j, ls, t)

StoreNext ==
    \/ StoreSkippedCall
    \/ StoreWrittenCall
    \/ StoreRaisesCall

----------------------------------------------------------------------------
(* analyze_frames_with_rekognition *)

\* ThreadPoolExecutor(max_workers=5)
max_workers == 5

\* The pool widths tried: the code's own, and narrower ones.
Widths == (1..MaxWidth) \cup {max_workers}

\* The first number of frames the code's pool cannot run all at once.
FramesOverPool == max_workers + 1

\* Frame indexes are those of range(len(frames)): 0-based.
FrameIndexes == 0..((IF MaxFrames >= FramesOverPool THEN MaxFrames ELSE FramesOverPool) - 1)
Submittable == 0..(nframes - 1)

\* What a put_object or detect_labels call may raise: the two exceptions
\* process_frame handles, and any other exception.
FrameErrors == {"ClientError", "BotoCoreError", "Exception"}

NoResult == [at |-> "none", error |-> "none"]
Logged == [at |-> "done", error |-> "none"]

\* The frames some worker thread is running process_frame for.
InFlight == {i \in FrameIndexes : fstate[i] \in {"put_object", "detect_labels"}}

\* Faulty variant: one task per worker is submitted.
TasksToSubmit_OnePerWorker == IF nframes <= width THEN nframes ELSE width

\* The number of tasks of executor.map(process_frame, frames, range(len(frames))).
TasksToSubmit == nframes

\* Faulty variant: the executor is shut down without waiting.
ShutdownComplete_NoWait == TRUE

\* Leaving the with block is shutdown(wait=True): it returns once the queue is
\* drained and every worker thread has ended.
ShutdownComplete == work_queue = <<>> /\ InFlight = {}

\* The dispatcher's own state at the call: nothing submitted, nothing begun.
DispFresh ==
    /\ submitted = 0
    /\ work_queue = <<>>
    /\ fstate = [i \in FrameIndexes |-> "new"]
    /\ fresult = [i \in FrameIndexes |-> NoResult]
    /\ started = [i \in FrameIndexes |-> 0]
    /\ fcalls = [i \in FrameIndexes |-> <<>>]
    /\ sink = {}

DispInit ==
    /\ nframes \in 0..MaxFrames
    /\ width \in Widths
    /\ dpc = "start"
    /\ DispFresh

\* A collaborator call of process_frame for frame i: the object key is made of
\* the index, and the call returned (raised = "none") or raised.
FrameCall(call, i, raised) == [call |-> call, key |-> i, raised |-> raised]

\* Faulty variant: a worker is taken to be free with the pool already full.
WorkerFree_OffByOne == Cardinality(InFlight) <= width

\* A worker thread of the pool is free: fewer than max_workers calls are running.
WorkerFree == Cardinality(InFlight) < width

\* Faulty variant: only the upload is guarded, and after a failed upload the
\* call goes on to the detection.
process_frame_except_GoesOn(i, e) ==
    /\ fstate' = [fstate EXCEPT ![i] = IF @ = "put_object" THEN "detect_labels" ELSE "done"]
    /\ fresult' = [fresult EXCEPT ![i] =
                      IF fstate[i] = "put_object" THEN @ ELSE [at |-> fstate[i], error |-> e]]
    /\ UNCHANGED <<work_queue, dpc>>

\* Faulty variant: a frame's exception cancels the queued frames and reaches the caller.
process_frame_except_Aborts(i, e) ==
    /\ fstate' = [j \in FrameIndexes |->
                    IF j = i \/ fstate[j] = "queued" THEN "done" ELSE fstate[j]]
    /\ fresult' = [fresult EXCEPT ![i] = [at |-> fstate[i], error |-> e]]
    /\ work_queue' = <<>>
    /\ dpc' = "raised"

\* An exception raised in process_frame(frame, i): ClientError and BotoCoreError
\* are logged by the handlers, any other is kept in the task's future, which
\* nobody reads. Either way only this frame's call ends.
process_frame_except(i, e) ==
    /\ fstate' = [fstate EXCEPT ![i] = "done"]
    /\ fresult' = [fresult EXCEPT ![i] = [at |-> fstate[i], error |-> e]]
    /\ UNCHANGED <<work_queue, dpc>>

\* The calling thread creates the executor and calls executor.map.
DispEnter ==
    /\ dpc = "start"
    /\ dpc' = "map"
    /\ UNCHANGED <<nframes, width, submitted, work_queue, fstate, fresult, started, fcalls, sink>>
    /\ UNCHANGED notDispVars

\* executor.map submits the next (frame, index) pair.
DispSubmit ==
    /\ dpc = "map"
    /\ submitted < TasksToSubmit
    /\ work_queue' = Append(work_queue, submitted)
    /\ fstate' = [fstate EXCEPT ![submitted] = "queued"]
    /\ submitted' = submitted + 1
    /\ UNCHANGED <<nframes, width, dpc, fresult, started, fcalls, sink>>
    /\ UNCHANGED notDispVars

\* executor.map has submitted every pair; the with block is left.
DispMapDone ==
    /\ dpc = "map"
    /\ submitted >= TasksToSubmit
    /\ dpc' = "shutdown"
    /\ UNCHANGED <<nframes, width, submitted, work_queue, fstate, fresult, started, fcalls, sink>>
    /\ UNCHANGED notDispVars

\* A free worker thread takes the head of the queue and begins process_frame.
WorkerTake ==
    /\ work_queue # <<>>
    /\ WorkerFree
    /\ LET i == Head(work_queue)
       IN  /\ fstate' = [fstate EXCEPT ![i] = "put_object"]
           /\ started' = [started EXCEPT ![i] = @ + 1]
    /\ work_queue' = Tail(work_queue)
    /\ UNCHANGED <<nframes, width, dpc, submitted, fresult, fcalls, sink>>
    /\ UNCHANGED notDispVars

\* s3_client.put_object succeeds for frame i.
PutObjectOk(i) ==
    /\ fstate[i] = "put_object"
    /\ fstate' = [fstate EXCEPT ![i] = "detect_labels"]
    /\ fcalls' = [fcalls EXCEPT ![i] = Append(@, FrameCall("put_object", i, "none"))]
    /\ UNCHANGED <<nframes, width, dpc, submitted, work_queue, fresult, started, sink>>
    /\ UNCHANGED notDispVars

\* s3_client.put_object raises for frame i.
PutObjectRaises(i) ==
    /\ fstate[i] = "put_object"
    /\ \E e \in FrameErrors :
          /\ process_frame_except(i, e)
          /\ fcalls' = [fcalls EXCEPT ![i] = Append(@, FrameCall("put_object", i, e))]
    /\ UNCHANGED <<nframes, width, submitted, started, sink>>
    /\ UNCHANGED notDispVars

\* rekognition_client.detect_labels succeeds for frame i; the labels are logged.
DetectLabelsOk(i) ==
    /\ fstate[i] = "detect_labels"
    /\ fstate' = [fstate EXCEPT ![i] = "done"]
    /\ fresult' = [fresult EXCEPT ![i] = Logged]
    /\ fcalls' = [fcalls EXCEPT ![i] = Append(@, FrameCall("detect_labels", i, "none"))]
    /\ UNCHANGED <<nframes, width, dpc, submitted, work_queue, started, sink>>
    /\ UNCHANGED notDispVars

\* rekognition_client.detect_labels raises for frame i.
DetectLabelsRaises(i) ==
    /\ fstate[i] = "detect_labels"
    /\ \E e \in FrameErrors :
          /\ process_frame_except(i, e)
          /\ fcalls' = [fcalls EXCEPT ![i] = Append(@, FrameCall("detect_labels", i, e))]
    /\ UNCHANGED <<nframes, width, submitted, started, sink>>
    /\ UNCHANGED notDispVars

\* shutdown(wait=True) is over: analyze_frames_with_rekognition returns.
DispReturn ==
    /\ dpc = "shutdown"
    /\ ShutdownComplete
    /\ dpc' = "returned"
    /\ UNCHANGED <<nframes, width, submitted, work_queue, fstate, fresult, started, fcalls, sink>>
    /\ UNCHANGED notDispVars

PutObjectOkAny == \E i \in FrameIndexes : PutObjectOk(i)
PutObjectRaisesAny == \E i \in FrameIndexes : PutObjectRaises(i)
DetectLabelsOkAny == \E i \in FrameIndexes : DetectLabelsOk(i)
DetectLabelsRaisesAny == \E i \in FrameIndexes : DetectLabelsRaises(i)

DispNext ==
    \/ DispEnter
    \/ DispSubmit
    \/ DispMapDone
    \/ WorkerTake
    \/ PutObjectOkAny
    \/ PutObjectRaisesAny
    \/ DetectLabelsOkAny
    \/ DetectLabelsRaisesAny
    \/ DispReturn

----------------------------------------------------------------------------
(* extract_frames *)

\* Frame rates cap.get(cv2.CAP_PROP_FPS) may give, in hundredths: 0 (the rate
\* cannot be determined), 1, 1.5, 29.97 and 30 frames per second.
FrameRates == {0, 100, 150, 2997, 3000}

\* Values of the interval argument, in tenths of a second: -1, 0, 0.5, 1, 2.
Intervals == {-10, 0, 5, 10, 20}

\* Python's int() of the quotient n / d (d > 0): truncation towards zero.
PyInt(n, d) == IF n >= 0 THEN n \div d ELSE -((-n) \div d)

Abs(n) == IF n >= 0 THEN n ELSE -n

\* Python's c % m == 0 for m # 0 (the sign of m does not matter for a zero rest).
PyModIsZero(c, m) == c % Abs(m) = 0

\* Faulty variant: the step is taken from the frame rate alone.
SampleStep_IgnoresInterval == PyInt(frame_rate, 100)

\* int(frame_rate * interval); both factors are scaled, by 100 and by 10.
SampleStep == PyInt(frame_rate * interval, 1000)

\* Whether VideoCapture opened the temporary file: it holds the video only if
\* video_data had not been read before.
Opened(file_has_video) == file_has_video /\ stream_openable

\* The stream the call is given.
StreamInit ==
    /\ stream_fps \in FrameRates
    /\ stream_openable \in BOOLEAN
    /\ stream_len \in 0..MaxDecoded
    /\ payload = "fresh"
    /\ readers = <<>>

\* The locals of extract_frames before the call.
ExtractFresh ==
    /\ frame_rate = 0
    /\ frame_count = 0
    /\ frames = <<>>
    /\ eoutcome = "none"

ExtractInit ==
    /\ interval \in Intervals
    /\ StreamInit
    /\ epc = "start"
    /\ ExtractFresh

\* temp_video_file.write(video_data.read()); cap = cv2.VideoCapture(...);
\* cap.isOpened() holds: frame_rate, frame_count and frames are set.
ExtractOpen ==
    /\ epc = "start"
    /\ Opened(payload = "fresh")
    /\ readers' = Append(readers, "extract_frames")
    /\ payload' = "exhausted"
    /\ frame_rate' = stream_fps
    /\ frame_count' = 0
    /\ frames' = <<>>
    /\ epc' = "read"
    /\ UNCHANGED <<interval, stream_fps, stream_openable, stream_len, eoutcome>>
    /\ UNCHANGED notExtractVars

\* The same, but cap.isOpened() fails: ValueError, logged and re-raised by the
\* except Exception handler.
ExtractNotOpened ==
    /\ epc = "start"
    /\ ~Opened(payload = "fresh")
    /\ readers' = Append(readers, "extract_frames")
    /\ payload' = "exhausted"
    /\ eoutcome' = "ValueError"
    /\ epc' = "done"
    /\ UNCHANGED <<interval, stream_fps, stream_openable, stream_len, frame_rate, frame_count, frames>>
    /\ UNCHANGED notExtractVars

\* ret, frame = cap.read() gives a frame.
ExtractRead ==
    /\ epc = "read"
    /\ frame_count < stream_len
    /\ epc' = "sample"
    /\ UNCHANGED <<interval, stream_fps, stream_openable, stream_len, payload, readers,
                   frame_rate, frame_count, frames, eoutcome>>
    /\ UNCHANGED notExtractVars

\* cap.read() gives no frame: break, cap.release(), return frames.
ExtractReturn ==
    /\ epc = "read"
    /\ frame_count >= stream_len
    /\ eoutcome' = "return"
    /\ epc' = "done"
    /\ UNCHANGED <<interval, stream_fps, stream_openable, stream_len, payload, readers,
                   frame_rate, frame_count, frames>>
    /\ UNCHANGED notExtractVars

\* frame_count % int(frame_rate * interval) with a step of 0: ZeroDivisionError,
\* logged and re-raised by the except Exception handler.
ExtractZeroDivision ==
    /\ epc = "sample"
    /\ SampleStep = 0
    /\ eoutcome' = "ZeroDivisionError"
    /\ epc' = "done"
    /\ UNCHANGED <<interval, stream_fps, stream_openable, stream_len, payload, readers,
                   frame_rate, frame_count, frames>>
    /\ UNCHANGED notExtractVars

\* if frame_count % int(frame_rate * interval) == 0: frames.append(frame);
\* frame_count += 1.
ExtractSample ==
    /\ epc = "sample"
    /\ SampleStep # 0
    /\ frames' = IF PyModIsZero(frame_count, SampleStep)
                 THEN Append(frames, frame_count)
                 ELSE frames
    /\ frame_count' = frame_count + 1
    /\ epc' = "read"
    /\ UNCHANGED <<interval, stream_fps, stream_openable, stream_len, payload, readers,
                   frame_rate, eoutcome>>
    /\ UNCHANGED notExtractVars

ExtractNext ==
    \/ ExtractOpen
    \/ ExtractNotOpened
    \/ ExtractRead
    \/ ExtractReturn
    \/ ExtractZeroDivision
    \/ ExtractSample

----------------------------------------------------------------------------
(* preprocess_frames *)

\* What OpenCV does with one frame: "ok" (resized, blurred, imencode gives
\* success = True), "not_encoded" (imencode gives success = False) or "raises"
\* (cv2.resize, cv2.GaussianBlur or cv2.imencode raises cv2.error).
FrameFates == {"ok", "not_encoded", "raises"}

\* The frames lists of length n.
Batches(n) == [1..n -> FrameFates]

\* The locals of preprocess_frames before the call.
PreFresh ==
    /\ ridx = 1
    /\ processed_frames = <<>>
    /\ routcome = "none"

PreInit ==
    /\ in_frames \in UNION {Batches(n) : n \in 0..MaxBatch}
    /\ rpc = "start"
    /\ PreFresh

\* An exception inside the for loop leaves it: the try statement is around the
\* whole loop, and its handler logs and re-raises.
FrameRaisesThen == [pc |-> "done", idx |-> ridx, outcome |-> "cv2.error"]

\* processed_frames = []
PreEnter ==
    /\ rpc = "start"
    /\ processed_frames' = <<>>
    /\ ridx' = 1
    /\ rpc' = "loop"
    /\ UNCHANGED <<in_frames, routcome>>
    /\ UNCHANGED notPreVars

\* One turn of the loop: resize, blur, imencode with success = True, append.
PreFrameEncoded ==
    /\ rpc = "loop"
    /\ ridx <= Len(in_frames)
    /\ in_frames[ridx] = "ok"
    /\ processed_frames' = Append(processed_frames, ridx)
    /\ ridx' = ridx + 1
    /\ UNCHANGED <<in_frames, rpc, routcome>>
    /\ UNCHANGED notPreVars

\* One turn of the loop with success = False: nothing is appended.
PreFrameNotEncoded ==
    /\ rpc = "loop"
    /\ ridx <= Len(in_frames)
    /\ in_frames[ridx] = "not_encoded"
    /\ ridx' = ridx + 1
    /\ UNCHANGED <<in_frames, rpc, processed_frames, routcome>>
    /\ UNCHANGED notPreVars

\* One turn of the loop in which an OpenCV call raises.
PreFrameRaises ==
    /\ rpc = "loop"
    /\ ridx <= Len(in_frames)
    /\ in_frames[ridx] = "raises"
    /\ rpc' = FrameRaisesThen.pc
    /\ ridx' = FrameRaisesThen.idx
    /\ routcome' = FrameRaisesThen.outcome
    /\ UNCHANGED <<in_frames, processed_frames>>
    /\ UNCHANGED notPreVars

\* The loop is over: return processed_frames.
PreReturn ==
    /\ rpc = "loop"
    /\ ridx > Len(in_frames)
    /\ routcome' = "return"
    /\ rpc' = "done"
    /\ UNCHANGED <<in_frames, ridx, processed_frames>>
    /\ UNCHANGED notPreVars

PreNext ==
    \/ PreEnter
    \/ PreFrameEncoded
    \/ PreFrameNotEncoded
    \/ PreFrameRaises
    \/ PreReturn

----------------------------------------------------------------------------
(* lambda_handler *)

\* Frame rates of the streams given to lambda_handler (hundredths): 0 and 1.
HandlerRates == {0, 100}

\* The exceptions a boto3 call raises.
AwsErrors == {"ClientError", "BotoCoreError"}

\* lambda_handler has no return statement and each of its except clauses only
\* logs: whichever way it ends, the caller gets None.
ReturnsNone == "returned None"

\* What is left of video_data once put_object was given it as Body: a
\* single-pass body is at its end; nothing in the code fixes the type of the
\* body, so one that can be read again from its start is allowed for too.
AfterUpload == {"exhausted", "fresh"}

\* Faulty variant: the statements after extract_frames run whatever its end.
ExtractSucceeded_Always == epc = "done"

\* extract_frames returned: an exception it raises leaves the try block of
\* lambda_handler before preprocess_frames is called.
ExtractSucceeded == epc = "done" /\ eoutcome = "return"

\* The handler's own state at its start, the stream not yet retrieved.
HandlerInit ==
    /\ has_arn \in BOOLEAN
    /\ hpc = "start"
    /\ houtcome = "none"
    /\ hlogged = "none"
    /\ ccalls = <<>>
    /\ interval = 10
    /\ stream_fps \in HandlerRates
    /\ stream_openable \in BOOLEAN
    /\ stream_len \in 0..MaxStreamFrames
    /\ payload = "none"
    /\ readers = <<>>
    /\ epc = "idle"
    /\ ExtractFresh

\* An exception reaches an except clause of lambda_handler: it is logged and
\* the handler ends.
Caught(e) ==
    /\ hlogged' = e
    /\ houtcome' = ReturnsNone
    /\ hpc' = "done"

\* event.get('streamARN') is missing: ValueError, raised inside the try.
HandlerMissingArn ==
    /\ hpc = "start"
    /\ ~has_arn
    /\ Caught("ValueError")
    /\ UNCHANGED <<has_arn, ccalls>>
    /\ UNCHANGED <<pollerVars, storeVars, dispVars, extractVars, preVars>>

\* get_kinesis_video returns video_data['Payload'].
HandlerGetVideo ==
    /\ hpc = "start"
    /\ has_arn
    /\ ccalls' = Append(ccalls, "get_media")
    /\ payload' = "fresh"
    /\ hpc' = "store"
    /\ UNCHANGED <<has_arn, houtcome, hlogged>>
    /\ UNCHANGED <<interval, stream_fps, stream_openable, stream_len, readers, epc,
                   frame_rate, frame_count, frames, eoutcome>>
    /\ UNCHANGED <<pollerVars, storeVars, dispVars, preVars>>

\* get_media raises (logged and re-raised by get_kinesis_video), or the
\* payload it gives is falsy and lambda_handler raises ValueError.
HandlerGetVideoFails ==
    /\ hpc = "start"
    /\ has_arn
    /\ ccalls' = Append(ccalls, "get_media")
    /\ \E e \in AwsErrors \cup {"ValueError"} : Caught(e)
    /\ UNCHANGED has_arn
    /\ UNCHANGED <<pollerVars, storeVars, dispVars, extractVars, preVars>>

\* store_video_s3: put_object with Body=video_data succeeds; the upload read
\* the body.
HandlerStoreVideo ==
    /\ hpc = "store"
    /\ ccalls' = Append(ccalls, "put_object")
    /\ readers' = Append(readers, "store_video_s3")
    /\ payload' \in AfterUpload
    /\ hpc' = "extract"
    /\ UNCHANGED <<has_arn, houtcome, hlogged>>
    /\ UNCHANGED <<interval, stream_fps, stream_openable, stream_len, epc,
                   frame_rate, frame_count, frames, eoutcome>>
    /\ UNCHANGED <<pollerVars, storeVars, dispVars, preVars>>

\* store_video_s3: put_object raises, having read the body or not.
HandlerStoreVideoFails ==
    /\ hpc = "store"
    /\ ccalls' = Append(ccalls, "put_object")
    /\ \/ /\ readers' = Append(readers, "store_video_s3")
          /\ payload' = "exhausted"
       \/ UNCHANGED <<readers, payload>>
    /\ \E e \in AwsErrors : Caught(e)
    /\ UNCHANGED has_arn
    /\ UNCHANGED <<interval, stream_fps, stream_openable, stream_len, epc,
                   frame_rate, frame_count, frames, eoutcome>>
    /\ UNCHANGED <<pollerVars, storeVars, dispVars, preVars>>

\* frames = extract_frames(video_data, interval=1) is called.
HandlerCallExtract ==
    /\ hpc = "extract"
    /\ interval' = 10
    /\ epc' = "start"
    /\ hpc' = "extracting"
    /\ UNCHANGED <<has_arn, houtcome, hlogged, ccalls>>
    /\ UNCHANGED <<stream_fps, stream_openable, stream_len, payload, readers,
                   frame_rate, frame_count, frames, eoutcome>>
    /\ UNCHANGED <<pollerVars, storeVars, dispVars, preVars>>

\* extract_frames raised: the exception is caught by lambda_handler.
HandlerExtractFailed ==
    /\ hpc = "extracting"
    /\ epc = "done"
    /\ ~ExtractSucceeded
    /\ Caught(eoutcome)
    /\ UNCHANGED <<has_arn, ccalls>>
    /\ UNCHANGED <<pollerVars, storeVars, dispVars, extractVars, preVars>>

\* preprocessed_frames = preprocess_frames(frames) is called.
HandlerCallPreprocess ==
    /\ hpc = "extracting"
    /\ ExtractSucceeded
    /\ in_frames' \in Batches(Len(frames))
    /\ rpc' = "start"
    /\ hpc' = "preprocessing"
    /\ UNCHANGED <<has_arn, houtcome, hlogged, ccalls>>
    /\ UNCHANGED <<ridx, processed_frames, routcome>>
    /\ UNCHANGED <<pollerVars, storeVars, dispVars, extractVars>>

\* preprocess_frames raised: the exception is caught by lambda_handler.
HandlerPreprocessFailed ==
    /\ hpc = "preprocessing"
    /\ rpc = "done"
    /\ routcome # "return"
    /\ Caught(routcome)
    /\ UNCHANGED <<has_arn, ccalls>>
    /\ UNCHANGED <<pollerVars, storeVars, dispVars, extractVars, preVars>>

\* analyze_frames_with_rekognition(preprocessed_frames, context) is called.
HandlerCallAnalyze ==
    /\ hpc = "preprocessing"
    /\ rpc = "done"
    /\ routcome = "return"
    /\ nframes' = Len(processed_frames)
    /\ width' = max_workers
    /\ dpc' = "start"
    /\ hpc' = "analyzing"
    /\ UNCHANGED <<has_arn, houtcome, hlogged, ccalls>>
    /\ UNCHANGED <<submitted, work_queue, fstate, fresult, started, fcalls, sink>>
    /\ UNCHANGED <<pollerVars, storeVars, extractVars, preVars>>

\* analyze_frames_with_rekognition returned: the try block is over.
HandlerReturn ==
    /\ hpc = "analyzing"
    /\ dpc = "returned"
    /\ houtcome' = ReturnsNone
    /\ hpc' = "done"
    /\ UNCHANGED <<has_arn, hlogged, ccalls>>
    /\ UNCHANGED <<pollerVars, storeVars, dispVars, extractVars, preVars>>

HandlerNext ==
    \/ HandlerMissingArn
    \/ HandlerGetVideo
    \/ HandlerGetVideoFails
    \/ HandlerStoreVideo
    \/ HandlerStoreVideoFails
    \/ HandlerCallExtract
    \/ HandlerExtractFailed
    \/ HandlerCallPreprocess
    \/ HandlerPreprocessFailed
    \/ HandlerCallAnalyze
    \/ HandlerReturn
    \/ ExtractNext
    \/ PreNext
    \/ DispNext

----------------------------------------------------------------------------
(* Specifications *)

\* The poller alone: the other components stay as constructed.
\* The dispatcher before any call, with an empty list of frames.
DispIdle ==
    /\ nframes = 0
    /\ width = max_workers
    /\ dpc = "idle"
    /\ DispFresh

\* extract_frames before any call, with no stream.
ExtractIdle ==
    /\ interval = 10
    /\ stream_fps = 0
    /\ stream_openable = FALSE
    /\ stream_len = 0
    /\ payload = "none"
    /\ readers = <<>>
    /\ epc = "idle"
    /\ ExtractFresh

\* preprocess_frames before any call.
PreIdle ==
    /\ in_frames = <<>>
    /\ rpc = "idle"
    /\ PreFresh

\* lambda_handler before any call.
HandlerIdle ==
    /\ has_arn = FALSE
    /\ hpc = "idle"
    /\ houtcome = "none"
    /\ hlogged = "none"
    /\ ccalls = <<>>

\* The poller before any call.
PollerIdle ==
    /\ PollerInit
    /\ max_attempts = 0

InitPoller ==
    /\ PollerInit
    /\ StoreInit
    /\ DispIdle
    /\ ExtractIdle
    /\ PreIdle
    /\ HandlerIdle

SpecPoller == InitPoller /\ [][PollerNext]_vars

\* The result store alone.
InitStore ==
    /\ StoreInit
    /\ PollerIdle
    /\ DispIdle
    /\ ExtractIdle
    /\ PreIdle
    /\ HandlerIdle

SpecStore == InitStore /\ [][StoreNext]_vars

\* The dispatcher alone.
InitDispatch ==
    /\ DispInit
    /\ PollerIdle
    /\ StoreInit
    /\ ExtractIdle
    /\ PreIdle
    /\ HandlerIdle

SpecDispatch == InitDispatch /\ [][DispNext]_vars

\* The dispatcher alone on the code's pool of five, also with one frame more
\* than the pool can run at once.
InitDispatchOverPool ==
    /\ nframes \in (0..MaxFrames) \cup {FramesOverPool}
    /\ width = max_workers
    /\ dpc = "start"
    /\ DispFresh
    /\ PollerIdle
    /\ StoreInit
    /\ ExtractIdle
    /\ PreIdle
    /\ HandlerIdle

SpecDispatchOverPool == InitDispatchOverPool /\ [][DispNext]_vars

\* extract_frames alone.
InitExtract ==
    /\ ExtractInit
    /\ PollerIdle
    /\ StoreInit
    /\ DispIdle
    /\ PreIdle
    /\ HandlerIdle

SpecExtract == InitExtract /\ [][ExtractNext]_vars

\* preprocess_frames alone.
InitPre ==
    /\ PreInit
    /\ PollerIdle
    /\ StoreInit
    /\ DispIdle
    /\ ExtractIdle
    /\ HandlerIdle

SpecPre == InitPre /\ [][PreNext]_vars

\* lambda_handler and the functions it calls.
InitHandler ==
    /\ HandlerInit
    /\ PreIdle
    /\ DispIdle
    /\ PollerIdle
    /\ StoreInit

SpecHandler == InitHandler /\ [][HandlerNext]_vars

----------------------------------------------------------------------------
(* Properties of get_rekognition_results *)

Min(a, b) == IF a <= b THEN a ELSE b

\* A history entry that is a response with a status other than SUCCEEDED, FAILED.
NonTerminal(h) == h.JobStatus \in Statuses \ TerminalStatuses

\* Every one of the first n entries of history is a non-terminal response.
FirstNonTerminal(n) == \A i \in 1..Min(n, Len(history)) : NonTerminal(history[i])

TerminalStates == {"SUCCEEDED", "FAILED", "TIMED_OUT"}

\* C1: when max_attempts = M >= 1 and the first M statuses are all
\* non-terminal, the call ends by raising TimeoutError (TIMED_OUT) after
\* exactly M status queries.
C1_TimeoutAfterExactlyM ==
    (ppc = "done" /\ max_attempts >= 1 /\ FirstNonTerminal(max_attempts))
        => /\ poutcome = TimeoutException
           /\ JobState = "TIMED_OUT"
           /\ Len(history) = max_attempts

\* The spec's case: three IN_PROGRESS with max_attempts = 3.
C1_Witness ==
    /\ ppc = "done"
    /\ max_attempts = 3
    /\ Len(history) = 3
    /\ \A i \in 1..3 : history[i].JobStatus = "IN_PROGRESS"
    /\ poutcome = TimeoutException

\* C2: when the k-th status (1 <= k <= max_attempts) is the first SUCCEEDED
\* and the earlier ones are non-terminal, the call returns after exactly k
\* status queries, and returns the k-th response; and the call never gives up
\* on non-terminal statuses before max_attempts of them were seen.
C2_SucceededAfterExactlyK ==
    /\ \A k \in 1..Min(Len(history), max_attempts) :
          (ppc = "done" /\ history[k].JobStatus = "SUCCEEDED" /\ FirstNonTerminal(k - 1))
             => /\ poutcome = "return"
                /\ JobState = "SUCCEEDED"
                /\ Len(history) = k
                /\ returned = history[k]
    /\ (ppc = "done" /\ FirstNonTerminal(Len(history)))
          => Len(history) >= max_attempts

\* The spec's case: [IN_PROGRESS, SUCCEEDED], the payload of the second returned.
C2_Witness ==
    /\ ppc = "done"
    /\ Len(history) = 2
    /\ history[1] = [JobStatus |-> "IN_PROGRESS", Labels |-> "p1"]
    /\ history[2] = [JobStatus |-> "SUCCEEDED", Labels |-> "p2"]
    /\ returned = history[2]

\* C3: once a status query returned FAILED, it is the last query, no sleep
\* follows it, and the call ends with the FAILED branch's exception, which is
\* not the exception of the timeout.
C3_FailedIsTerminal ==
    /\ \A k \in 1..Len(history) :
          history[k].JobStatus = "FAILED"
             => /\ k = Len(history)
                /\ sleeps = k - 1
                /\ ppc \in {"check", "done"}
                /\ ppc = "done" => (poutcome = FailedException /\ JobState = "FAILED")
    /\ FailedException # TimeoutException
    /\ (ppc = "done" /\ poutcome = TimeoutException)
          => \A k \in 1..Len(history) : history[k].JobStatus # "FAILED"

\* A FAILED after one IN_PROGRESS: ended with Exception, one sleep in all.
C3_Witness ==
    /\ ppc = "done"
    /\ Len(history) = 2
    /\ history[1].JobStatus = "IN_PROGRESS"
    /\ history[2].JobStatus = "FAILED"
    /\ poutcome = FailedException
    /\ sleeps = 1

\* The moves of the job state the spec allows.
JobStateMoves ==
    {<<"SUBMITTED", "POLLING">>, <<"POLLING", "POLLING">>}
        \cup {<<"POLLING", t>> : t \in TerminalStates}

\* One step's move of the job state is an allowed one.
JobStateMoveAllowed == <<JobState, JobState'>> \in JobStateMoves

\* No step is taken once the call has ended.
NoStepOnceEnded == ppc # "done"

\* The job state moves only along SUBMITTED -> POLLING -> terminal, a status is
\* queried only while no terminal status has been seen, and nothing changes
\* once the call has ended.
PollerMovesOnly ==
    /\ [](\A i \in 1..(Len(history) - 1) : NonTerminal(history[i]))
    /\ [][JobStateMoveAllowed]_pollerVars
    /\ [][NoStepOnceEnded]_pollerVars

----------------------------------------------------------------------------
(* Properties of store_results_dynamodb *)

\* The labels of a list with confidence at least t percent, in the list's order.
RECURSIVE KeptInOrder(_, _)
KeptInOrder(labels, t) ==
    IF labels = <<>> THEN <<>>
    ELSE IF Head(labels).Confidence >= 10 * t
         THEN <<Head(labels)>> \o KeptInOrder(Tail(labels), t)
         ELSE KeptInOrder(Tail(labels), t)

\* Every label of the list is below t percent.
AllBelow(labels, t) == \A i \in 1..Len(labels) : labels[i].Confidence < 10 * t

\* The latest step was a call whose labels were all below its threshold, and
\* it left the table and the write counts as they were.
BelowThresholdCallWritesNothing ==
    (calls' = calls + 1 /\ AllBelow(last'.Labels, last'.confidence_threshold))
        => (table' = table /\ puts' = puts /\ last'.outcome = "skipped")

\* C5: no stored record holds a label below the threshold of the call that
\* wrote it, no stored record is empty, and a call whose labels are all below
\* its threshold writes nothing.
C5_ConfidenceInvariant ==
    /\ [](\A it \in table :
            /\ it.results # <<>>
            /\ \A i \in 1..Len(it.results) :
                  it.results[i].Confidence >= 10 * thresholdOf[it.job_id])
    /\ [][BelowThresholdCallWritesNothing]_storeVars

\* A record was written under threshold 90 from a list that also held a label
\* of confidence 80.0, and a later call with only a 79.9 label was skipped.
C5_Witness ==
    /\ last.outcome = "skipped"
    /\ last.Labels = <<[Name |-> "Dog", Confidence |-> 799]>>
    /\ \E it \in table :
          /\ thresholdOf[it.job_id] = 90
          /\ it.results = <<[Name |-> "Person", Confidence |-> 900]>>

\* C6: a call that stores writes exactly the input labels with confidence >=
\* threshold, in input order; with threshold 80, 79.9 is left out and 80.0 kept.
C6_InclusiveFilter ==
    last.outcome = "stored"
        => \E it \in table :
              /\ it.job_id = last.job_id
              /\ it.results = KeptInOrder(last.Labels, last.confidence_threshold)
              /\ last.confidence_threshold = 80
                    => \A i \in 1..Len(last.Labels) :
                          /\ last.Labels[i].Confidence = 799
                                => \A k \in 1..Len(it.results) : it.results[k] # last.Labels[i]
                          /\ last.Labels[i].Confidence = 800
                                => \E k \in 1..Len(it.results) : it.results[k] = last.Labels[i]

\* Threshold 80 and the list [79.9, 80.0]: only the 80.0 label is written.
C6_Witness ==
    /\ last.outcome = "stored"
    /\ last.confidence_threshold = 80
    /\ last.Labels = <<[Name |-> "Dog", Confidence |-> 799], [Name |-> "Car", Confidence |-> 800]>>
    /\ \E it \in table :
          it.job_id = last.job_id /\ it.results = <<[Name |-> "Car", Confidence |-> 800]>>

\* C7 as stated: the store holds at most one record per identifier, and a
\* record for an identifier is written at most once.
C7_WrittenAtMostOnce ==
    /\ \A j \in JobIds : Cardinality({it \in table : it.job_id = j}) <= 1
    /\ \A j \in JobIds : puts[j] <= 1

----------------------------------------------------------------------------
(* Properties of analyze_frames_with_rekognition *)

\* The frames process_frame was begun for.
Attempted == {i \in FrameIndexes : started[i] >= 1}

\* The latest step ended frame i's call with an error.
FailedNow(i) == fresult[i] = NoResult /\ fresult'[i].error # "none"

\* A step in which a frame fails changes no other frame, leaves the queue as
\* it is and does not end the caller's wait.
FailureTouchesOnlyItsFrame ==
    \A i \in FrameIndexes :
        FailedNow(i) =>
            /\ \A j \in FrameIndexes \ {i} :
                  fstate'[j] = fstate[j] /\ fresult'[j] = fresult[j]
            /\ work_queue' = work_queue
            /\ dpc' = dpc

\* C8: for every number of frames and every pool width, process_frame is begun
\* at most once per frame, never for an index that is not a frame's, and by the
\* time the call returns exactly once for each of the N frames: the attempted
\* frames are 0..N-1 whatever the width.
C8_EachFrameOnce ==
    /\ \A i \in FrameIndexes : started[i] <= 1
    /\ Attempted \subseteq Submittable
    /\ dpc = "returned" => Attempted = Submittable

\* Three frames on a pool of one worker, all attempted at the return.
C8_Witness ==
    /\ dpc = "returned"
    /\ nframes = 3
    /\ width = 1
    /\ \A i \in 0..2 : started[i] = 1

\* C9: a frame whose upload or detection fails, with any error, changes no
\* sibling frame and does not abort the batch: the caller never sees an
\* exception, and at the return every frame has been attempted and has ended.
C9_FailureIsolation ==
    /\ [][FailureTouchesOnlyItsFrame]_dispVars
    /\ [](dpc # "raised")
    /\ []((dpc = "returned" /\ \E i \in Submittable : fresult[i].error # "none")
            => \A j \in Submittable : started[j] = 1 /\ fstate[j] = "done")

\* Frame 0 failed in the upload, frame 1 in the detection with an exception
\* process_frame does not handle, and frame 2 succeeded.
C9_Witness ==
    /\ dpc = "returned"
    /\ nframes = 3
    /\ fresult[0] = [at |-> "put_object", error |-> "ClientError"]
    /\ fresult[1] = [at |-> "detect_labels", error |-> "Exception"]
    /\ fresult[2] = Logged

\* C10: when the call has returned, no frame is queued or in flight: the
\* process_frame call of every submitted frame has ended.
C10_ReturnsAfterDrain ==
    dpc = "returned"
        => /\ work_queue = <<>>
           /\ InFlight = {}
           /\ \A i \in Submittable : fstate[i] = "done" /\ fresult[i] # NoResult

\* Returned with three frames on the code's pool of five, ended both ways.
C10_Witness ==
    /\ dpc = "returned"
    /\ nframes = 3
    /\ width = max_workers
    /\ fresult[0] = Logged
    /\ fresult[2].error = "BotoCoreError"

----------------------------------------------------------------------------
(* The poller's attempt counter *)

Max(a, b) == IF a >= b THEN a ELSE b

\* The number of status queries so far that returned a non-terminal status.
NonTerminalQueries == Cardinality({i \in 1..Len(history) : NonTerminal(history[i])})

\* The non-terminal queries whose sleep and increment are done: all of them,
\* but the latest while the call is still between the query and the sleep.
NonTerminalHandled ==
    IF ppc = "check" /\ NonTerminal(response)
    THEN NonTerminalQueries - 1
    ELSE NonTerminalQueries

\* A step leaves attempt alone, or adds exactly one to it, and then it is the
\* step that follows a query whose status was non-terminal.
AttemptStep ==
    \/ attempt' = attempt
    \/ /\ attempt' = attempt + 1
       /\ ppc = "check"
       /\ NonTerminal(response)

\* C15 as stated: in every reachable state 0 <= attempt <= max_attempts; the
\* counter never decreases and grows by one per non-terminal status query.
C15_Original ==
    /\ [](0 <= attempt /\ attempt <= max_attempts)
    /\ [](attempt = NonTerminalHandled)
    /\ [][AttemptStep]_pollerVars

\* C15 amended: 0 <= attempt <= max(max_attempts, 0); the counter never
\* decreases, and it grows by exactly one for each status query that returned
\* a non-terminal status and by nothing else.
C15_AttemptCounter ==
    /\ [](0 <= attempt /\ attempt <= Max(max_attempts, 0))
    /\ [](attempt = NonTerminalHandled)
    /\ [][AttemptStep]_pollerVars

\* The counter at its cap after three non-terminal statuses.
C15_Witness ==
    /\ max_attempts = 3
    /\ attempt = 3
    /\ NonTerminalQueries = 3
    /\ ppc = "done"

----------------------------------------------------------------------------
(* The dispatcher's pool, sink and per-frame steps *)

\* C16: at every moment the number of frames whose process_frame call is
\* running is at most the pool width (5 in the code), however many frames
\* were submitted.
C16_BoundedConcurrency ==
    /\ Cardinality(InFlight) <= width
    /\ width = max_workers

\* Six frames on the pool of five: five calls are running and the sixth frame
\* waits in the queue.
C16_Witness ==
    /\ nframes = FramesOverPool
    /\ width = max_workers
    /\ Cardinality(InFlight) = max_workers
    /\ work_queue = <<max_workers>>

\* The outcomes of frame i that the caller can read.
OutcomesOf(i) == {o \in sink : o.frameIndex = i}

\* C17 as stated: by the time the call returns, every submitted frame has
\* exactly one outcome, (frameIndex, labels) or (frameIndex, error), in a sink
\* the caller can read.
C17_OneOutcomePerFrame ==
    dpc = "returned" => \A i \in Submittable : Cardinality(OutcomesOf(i)) = 1

\* C18: for each frame the upload under the frame's key comes first, the
\* detection is called on that key only after the upload returned, and never
\* after the upload raised.
C18_UploadBeforeDetection ==
    \A i \in FrameIndexes :
        LET c == fcalls[i]
        IN  /\ Len(c) <= 2
            /\ Len(c) >= 1 => (c[1].call = "put_object" /\ c[1].key = i)
            /\ Len(c) = 2 => /\ c[2].call = "detect_labels"
                             /\ c[2].key = c[1].key
                             /\ c[1].raised = "none"
            /\ fstate[i] = "detect_labels" => (Len(c) = 1 /\ c[1].raised = "none")
            /\ (Len(c) >= 1 /\ c[1].raised # "none") => (Len(c) = 1 /\ fstate[i] = "done")

\* Frame 0 was uploaded and then analysed; the upload of frame 1 raised and no
\* detection was called for it.
C18_Witness ==
    /\ dpc = "returned"
    /\ fcalls[0] = <<FrameCall("put_object", 0, "none"), FrameCall("detect_labels", 0, "none")>>
    /\ fcalls[1] = <<FrameCall("put_object", 1, "BotoCoreError")>>

----------------------------------------------------------------------------
(* extract_frames: sampling and configuration *)

\* Python's round() of the quotient n / d (n >= 0, d > 0): to the nearest
\* integer, a tie going to the even one.
PyRound(n, d) ==
    LET q == n \div d
        r == n % d
    IN  IF 2 * r < d THEN q
        ELSE IF 2 * r > d THEN q + 1
        ELSE IF q % 2 = 0 THEN q ELSE q + 1

\* round(fps x intervalSeconds) for the frame rate read from the stream.
RoundStep == PyRound(frame_rate * interval, 1000)

\* The decode numbers handled so far, in order.
Decoded == [k \in 1..frame_count |-> k - 1]

OnRoundStep(c) == c % RoundStep = 0

\* C11: for a determinable frame rate and an interval above 0, the frames kept
\* are exactly the decoded frames c with c mod round(fps x interval) = 0, in
\* increasing order of c, and the sampling raises nothing.
C11_SamplingRule ==
    (epc \in {"read", "sample", "done"} /\ interval > 0 /\ frame_rate > 0 /\ RoundStep >= 1)
        => /\ eoutcome # "ZeroDivisionError"
           /\ frames = SelectSeq(Decoded, OnRoundStep)

\* C12: a call with an interval of 0 or below ends in a configuration error,
\* with the stream never read or opened and no frame decoded or kept.
C12_RejectsBadInterval ==
    (epc # "idle" /\ interval <= 0)
        => /\ readers = <<>>
           /\ epc \notin {"read", "sample"}
           /\ frame_count = 0
           /\ frames = <<>>
           /\ (epc = "done" => eoutcome = "ConfigurationError")

----------------------------------------------------------------------------
(* preprocess_frames: one frame's failure *)

\* The positions of the frames of the batch that did not fail, in input order.
Positions == [k \in 1..Len(in_frames) |-> k]

DidNotFail(k) == in_frames[k] = "ok"

\* C20: whichever frames fail, preprocess_frames returns, and what it returns
\* is the encoded form of every frame that did not fail, in input order.
C20_PerFrameIsolation ==
    rpc = "done"
        => /\ routcome = "return"
           /\ processed_frames = SelectSeq(Positions, DidNotFail)

----------------------------------------------------------------------------
(* lambda_handler: the stream, validation, extraction errors *)

\* C13: in a run of lambda_handler the payload is read at most once and only
\* by extract_frames, and a run that went through has read it exactly once.
C13_SingleRead ==
    /\ Len(readers) <= 1
    /\ \A k \in 1..Len(readers) : readers[k] = "extract_frames"
    /\ (hpc = "done" /\ hlogged = "none") => readers = <<"extract_frames">>

\* What the caller gets from a run that met no error.
SuccessfulRunOutcome == ReturnsNone

\* C14: when the event has no streamARN, lambda_handler ends with no call to
\* AWS made and with an outcome that differs from that of a successful run.
C14_ValidationSurfaced ==
    (hpc = "done" /\ ~has_arn)
        => /\ ccalls = <<>>
           /\ houtcome # SuccessfulRunOutcome

ExtractErrors == {"ValueError", "ZeroDivisionError"}

\* C19: once extract_frames has failed, neither preprocess_frames nor
\* analyze_frames_with_rekognition is entered: no frame is preprocessed, none
\* is uploaded and no detection call is made.
C19_ExtractionErrorAborts ==
    (hpc # "idle" /\ eoutcome \in ExtractErrors)
        => /\ rpc = "idle"
           /\ processed_frames = <<>>
           /\ dpc = "idle"
           /\ \A i \in FrameIndexes : fcalls[i] = <<>>

C19_Witness ==
    /\ hpc = "done"
    /\ eoutcome \in ExtractErrors
    /\ hlogged = eoutcome
    /\ "put_object" \in {ccalls[k] : k \in 1..Len(ccalls)}

----------------------------------------------------------------------------
(* extract_frames: the number of frames returned *)

\* fps x intervalSeconds, scaled by 1000.
StepProduct == frame_rate * interval

\* The step the code samples with: the product, truncated.
TruncatedStep == PyInt(StepProduct, 1000)

CeilDiv(a, b) == (a + b - 1) \div b

\* The number of frames returned differs from streamDurationSeconds /
\* intervalSeconds = F / (fps x intervalSeconds) by at most 1.
WithinOneOfDuration ==
    Abs(Len(frames) * StepProduct - stream_len * 1000) <= StepProduct

\* A call on an opened stream with a determinable frame rate and an interval
\* above 0 has ended.
SampledCallEnded == epc = "done" /\ interval > 0 /\ frame_rate > 0

\* C21 as stated: such a call returns, and the number of frames returned is
\* within 1 of streamDurationSeconds / intervalSeconds.
C21_Original ==
    SampledCallEnded
        => /\ eoutcome = "return"
           /\ WithinOneOfDuration

\* C21: such a call on a stream of F frames returns ceil(F / step) frames for
\* step = int(fps x intervalSeconds) >= 1, which is within 1 of
\* streamDurationSeconds / intervalSeconds when fps x intervalSeconds is a
\* whole number; with a step of 0 it returns no frame for F = 0 and raises
\* ZeroDivisionError for F >= 1.
C21_ExtractedLength ==
    SampledCallEnded
        => /\ (eoutcome = "return" /\ TruncatedStep >= 1)
                => Len(frames) = CeilDiv(stream_len, TruncatedStep)
           /\ (eoutcome = "return" /\ TruncatedStep = 0)
                => (stream_len = 0 /\ frames = <<>>)
           /\ (eoutcome = "return" /\ StepProduct % 1000 = 0)
                => WithinOneOfDuration
           /\ eoutcome # "return"
                => /\ eoutcome = "ZeroDivisionError"
                   /\ TruncatedStep = 0
                   /\ stream_len >= 1
                   /\ frames = <<>>

C21_Witness ==
    /\ epc = "done"
    /\ eoutcome = "return"
    /\ frame_rate = 3000
    /\ interval = 5
    /\ stream_len = MaxDecoded
    /\ Len(frames) = CeilDiv(MaxDecoded, 15)

----------------------------------------------------------------------------
(* lambda_handler: the index of a frame *)

\* The index the frame dispatched under index i had in the output of
\* extract_frames: processed_frames holds positions counted from 1.
ExtractorIndex(i) == processed_frames[i + 1] - 1

\* The object keys used for the frame dispatched under index i.
KeysOf(i) == {fcalls[i][k].key : k \in 1..Len(fcalls[i])}

\* C22: in a run of lambda_handler, every frame is uploaded under the index it
\* had in the output of extract_frames, and two frames never share an object
\* key.
C22_FrameIdentityKept ==
    hpc # "idle"
        => /\ \A i \in FrameIndexes :
                fcalls[i] # <<>>
                    => /\ i < Len(processed_frames)
                       /\ KeysOf(i) = {ExtractorIndex(i)}
           /\ \A i, j \in FrameIndexes :
                (i # j) => (KeysOf(i) \cap KeysOf(j) = {})

----------------------------------------------------------------------------
(* The poller's suspensions *)

\* C23: the number of suspensions equals the number of status queries that
\* returned a non-terminal status (the latest one still to be slept on while
\* the call is between the query and the sleep); a call that timed out made
\* max(max_attempts, 0) queries, slept after each of them, the last included,
\* and queried no more; with max_attempts <= 0 it ends by timing out with no
\* query and no suspension.
C23_SleepsMatchNonTerminalPolls ==
    /\ sleeps = NonTerminalHandled
    /\ ppc = "done" => sleeps = NonTerminalQueries
    /\ poutcome = TimeoutException
          => /\ sleeps = Max(max_attempts, 0)
             /\ Len(history) = sleeps
             /\ FirstNonTerminal(Len(history))
    /\ (ppc = "done" /\ max_attempts <= 0)
          => /\ poutcome = TimeoutException
             /\ history = <<>>
             /\ sleeps = 0

C23_Witness ==
    /\ poutcome = TimeoutException
    /\ max_attempts >= 2
    /\ sleeps = max_attempts
    /\ Len(history) = max_attempts

====
